---- MODULE Spec2Model ----
(***************************************************************************)
(* Model of firmware/mq7_module.h: the clamped linear map from a 12-bit    *)
(* ADC reading to gas units, mq7_map_adc_to_gas, and its four calibration  *)
(* constants.                                                              *)
(*                                                                         *)
(* The C code computes in `float` (IEEE-754 binary32, round to nearest,    *)
(* ties to even, each operation rounded on its own).  A float is modelled  *)
(* as a record                                                             *)
(*     [k |-> "fin" | "inf" | "nan", s |-> 0 | 1, m |-> mantissa, e |-> exponent]      *)
(* whose value, for k = "fin", is (-1)^s * m * 2^e with m = 0 (and e = 0,  *)
(* s = 0) or 2^23 <= m < 2^24.  The form is canonical, so two finite       *)
(* floats are equal exactly when their records are.  Negative zero is      *)
(* folded into zero: the code's only divisor is a difference, which is     *)
(* never -0, and no comparison or sum tells the two zeros apart.           *)
(* Exponents stay inside binary32's normal range for every value   *)
(* the model computes (ExponentsNormal below checks it), so overflow to    *)
(* infinity and gradual underflow are not modelled; infinities and NaN     *)
(* arise only from a division by zero.                                     *)
(*                                                                         *)
(* All integer arithmetic stays below 2^31.                                *)
(***************************************************************************)
EXTENDS Integers, FiniteSets, Sequences, TLC

---------------------------------------------------------------------------
(* binary32 arithmetic *)

MantBits == 24

RECURSIVE BitLen(_)
BitLen(n) == IF n = 0 THEN 0 ELSE 1 + BitLen(n \div 2)

FZero == [k |-> "fin", s |-> 0, m |-> 0, e |-> 0]
FNaN  == [k |-> "nan", s |-> 0, m |-> 0, e |-> 0]
FInf(sgn) == [k |-> "inf", s |-> sgn, m |-> 0, e |-> 0]

(* The float nearest to (-1)^sgn * (M + f) * 2^ex, where M >= 0 is an      *)
(* integer below 2^31 and 0 <= f < 1 with f > 0 exactly when sticky; ties  *)
(* go to the even mantissa.  With sticky set, M has at least 25 bits.      *)
FRound(sgn, M, ex, sticky) ==
  IF M = 0 THEN FZero
  ELSE LET L == BitLen(M) IN
       IF L <= MantBits
       THEN [k |-> "fin", s |-> sgn, m |-> M * 2^(MantBits - L), e |-> ex - (MantBits - L)]
       ELSE LET d    == L - MantBits
                q    == M \div 2^d
                r    == M % 2^d
                half == 2^(d - 1)
                up   == r > half \/ (r = half /\ (sticky \/ q % 2 = 1))
                q1   == IF up THEN q + 1 ELSE q
            IN  IF q1 = 2^MantBits
                THEN [k |-> "fin", s |-> sgn, m |-> 2^(MantBits - 1), e |-> ex + d + 1]
                ELSE [k |-> "fin", s |-> sgn, m |-> q1, e |-> ex + d]

(* (float)n for a C int n. *)
IntToFloat(n) == IF n < 0 THEN FRound(1, -n, 0, FALSE) ELSE FRound(0, n, 0, FALSE)

FNeg(x) == IF x.k = "nan" \/ (x.k = "fin" /\ x.m = 0) THEN x ELSE [x EXCEPT !.s = 1 - x.s]

(* |x| < |y| for finite x, y. *)
MagLess(x, y) ==
  IF y.m = 0 THEN FALSE
  ELSE IF x.m = 0 THEN TRUE
  ELSE x.e < y.e \/ (x.e = y.e /\ x.m < y.m)

(* x + y for finite nonzero x, y with |x| >= |y|: the smaller operand is   *)
(* aligned to the larger with three extra bits; what falls below them is   *)
(* kept as the sticky flag.                                                *)
FAddAligned(x, y) ==
  LET d    == x.e - y.e
      B    == x.m * 8
      S    == IF d >= MantBits + 3 THEN 0 ELSE (y.m * 8) \div 2^d
      rest == IF d >= MantBits + 3 THEN TRUE ELSE (y.m * 8) % 2^d # 0
      R    == IF x.s = y.s THEN B + S
              ELSE IF rest THEN B - S - 1 ELSE B - S
  IN  FRound(x.s, R, x.e - 3, rest)

FAdd(x, y) ==
  IF x.k = "nan" \/ y.k = "nan" THEN FNaN
  ELSE IF x.k = "inf" THEN (IF y.k = "inf" /\ y.s # x.s THEN FNaN ELSE x)
  ELSE IF y.k = "inf" THEN y
  ELSE IF x.m = 0 THEN y
  ELSE IF y.m = 0 THEN x
  ELSE IF MagLess(x, y) THEN FAddAligned(y, x) ELSE FAddAligned(x, y)

FSub(x, y) == FAdd(x, FNeg(y))

(* x * y: the 48-bit product of the mantissas in two 24-bit limbs. *)
FMul(x, y) ==
  IF x.k = "nan" \/ y.k = "nan" THEN FNaN
  ELSE LET sgn == IF x.s = y.s THEN 0 ELSE 1 IN
  IF x.k = "inf" \/ y.k = "inf"
  THEN (IF (x.k = "fin" /\ x.m = 0) \/ (y.k = "fin" /\ y.m = 0) THEN FNaN ELSE FInf(sgn))
  ELSE IF x.m = 0 \/ y.m = 0 THEN FZero
  ELSE LET xh  == x.m \div 4096
           xl  == x.m % 4096
           yh  == y.m \div 4096
           yl  == y.m % 4096
           mid == xh * yl + xl * yh
           low == xl * yl + (mid % 4096) * 4096
           lo  == low % 2^24
           hi  == xh * yh + mid \div 4096 + low \div 2^24
       IN  FRound(sgn, hi * 64 + lo \div 2^18, x.e + y.e + 18, lo % 2^18 # 0)

(* Seven more quotient bits of a long division by d. *)
DivStep(qr, d) == <<qr[1] * 128 + (qr[2] * 128) \div d, (qr[2] * 128) % d>>

(* x / y: 28 fraction bits of the quotient of the mantissas, then sticky. *)
FDiv(x, y) ==
  IF x.k = "nan" \/ y.k = "nan" THEN FNaN
  ELSE LET sgn == IF x.s = y.s THEN 0 ELSE 1 IN
  IF x.k = "inf" THEN (IF y.k = "inf" THEN FNaN ELSE FInf(sgn))
  ELSE IF y.k = "inf" THEN FZero
  ELSE IF y.m = 0 THEN (IF x.m = 0 THEN FNaN ELSE FInf(sgn))
  ELSE IF x.m = 0 THEN FZero
  ELSE LET q0 == <<x.m \div y.m, x.m % y.m>>
           q4 == DivStep(DivStep(DivStep(DivStep(q0, y.m), y.m), y.m), y.m)
       IN  FRound(sgn, q4[1], x.e - y.e - 28, q4[2] # 0)

(* The C comparisons x < y and x > y: false when either side is NaN. *)
FLt(x, y) ==
  IF x.k = "nan" \/ y.k = "nan" THEN FALSE
  ELSE IF x.s # y.s THEN x.s = 1
  ELSE IF x.k = "inf" \/ y.k = "inf"
       THEN (IF x.s = 0 THEN x.k = "fin" /\ y.k = "inf" ELSE x.k = "inf" /\ y.k = "fin")
  ELSE IF x.s = 0 THEN MagLess(x, y) ELSE MagLess(y, x)

FGt(x, y) == FLt(y, x)

FLe(x, y) == x.k # "nan" /\ y.k # "nan" /\ ~FLt(y, x)

---------------------------------------------------------------------------
(* mq7_module.h *)

VARIABLES
  MQ7_ADC_MIN_F, MQ7_ADC_MAX_F, GAS_UNIT_MIN, GAS_UNIT_MAX,  \* the four constants
  pc,       \* pc[c]: the statement caller c's call is at
  adc,      \* adc[c]: the argument of c's call
  v, t, gas_val,   \* the call's locals, one set per caller
  ret,      \* ret[c]: what c's last call returned
  hist      \* <<adc, result>> of the calls whose return was logged

consts == <<MQ7_ADC_MIN_F, MQ7_ADC_MAX_F, GAS_UNIT_MIN, GAS_UNIT_MAX>>
vars == <<MQ7_ADC_MIN_F, MQ7_ADC_MAX_F, GAS_UNIT_MIN, GAS_UNIT_MAX,
          pc, adc, v, t, gas_val, ret, hist>>

(* Bounds. *)
NCallers == 2       \* concurrent callers
Margin == 64        \* inputs run from ADC_LO - Margin to ADC_HI + Margin
CfgAdc == 3         \* miscalibrated ADC bounds are drawn from 0 .. CfgAdc
CfgUnit == 2        \* miscalibrated unit bounds are drawn from 0 .. CfgUnit

Procs == 1 .. NCallers

(* The constants as shipped. *)
ADC_LO == 0
ADC_HI == 4095
UNIT_LO == 150
UNIT_HI == 700
Shipped == [adc_min  |-> IntToFloat(ADC_LO),  adc_max  |-> IntToFloat(ADC_HI),
            unit_min |-> IntToFloat(UNIT_LO), unit_max |-> IntToFloat(UNIT_HI)]

(* The arguments the callers pass: every reading of the 12-bit channel,    *)
(* a margin on both sides of it, and ints far outside it, up to INT_MAX    *)
(* and down to -INT_MAX, some of them not representable as a float.        *)
FarInputs == {-2147483647, -16777217, -10000, -100, 10000, 16777217, 33554434, 2147483647}
AdcInputs == ((ADC_LO - Margin) .. (ADC_HI + Margin)) \cup FarInputs
SampleInputs == {-100, -1, 0, 1, 2047, 2048, 4095, 4096, 10000}
CfgInputs == -1 .. (CfgAdc + 1)

---------------------------------------------------------------------------
(* Faulty variants of the statements, each with the slip it stands for.    *)

(* The reading's lowest bit is lost before the conversion. *)
Converted_DropLsb(a) == IntToFloat(IF a > 0 /\ a % 2 = 1 THEN a - 1 ELSE a)
(* The subtraction of the minimum is written the wrong way round. *)
Normalised_Swapped(x, lo, hi) == FDiv(FSub(lo, x), FSub(hi, lo))
(* The reading is divided by the number of ADC codes, 4096, not by 4095. *)
Normalised_By4096(x, lo, hi) == FDiv(FSub(x, lo), FAdd(FSub(hi, lo), IntToFloat(1)))
(* A clamp is left out. *)
ClampedLow_Off(x) == x
ClampedHigh_Off(x) == x
(* t is scaled by the maximum, not by the span. *)
Scaled_ByMax(x, lo, hi) == FAdd(lo, FMul(x, hi))
(* The minimum is not added. *)
Scaled_NoOffset(x, lo, hi) == FMul(x, FSub(hi, lo))
(* The minimum and the maximum change places. *)
Scaled_MaxFirst(x, lo, hi) == FAdd(hi, FMul(x, FSub(lo, hi)))

(* The statements of mq7_map_adc_to_gas as functions of what they read. *)
Converted(a) == IntToFloat(a)
Normalised(x, lo, hi) == FDiv(FSub(x, lo), FSub(hi, lo))
ClampedLow(x) == IF FLt(x, FZero) THEN FZero ELSE x
ClampedHigh(x) == IF FGt(x, IntToFloat(1)) THEN IntToFloat(1) ELSE x
Scaled(x, lo, hi) == FAdd(lo, FMul(x, FSub(hi, lo)))

(* One whole call, under the constants k. *)
MapWith(k, a) ==
  Scaled(ClampedHigh(ClampedLow(Normalised(Converted(a), k.adc_min, k.adc_max))),
         k.unit_min, k.unit_max)

Current == [adc_min  |-> MQ7_ADC_MIN_F, adc_max  |-> MQ7_ADC_MAX_F,
            unit_min |-> GAS_UNIT_MIN,  unit_max |-> GAS_UNIT_MAX]

mq7_map_adc_to_gas(a) == MapWith(Current, a)

Idle == [c \in Procs |-> FZero]

InitCalls ==
  /\ pc = [c \in Procs |-> "idle"]
  /\ adc = [c \in Procs |-> 0]
  /\ v = Idle /\ t = Idle /\ gas_val = Idle /\ ret = Idle
  /\ hist = {}

Init ==
  /\ MQ7_ADC_MIN_F = Shipped.adc_min
  /\ MQ7_ADC_MAX_F = Shipped.adc_max
  /\ GAS_UNIT_MIN = Shipped.unit_min
  /\ GAS_UNIT_MAX = Shipped.unit_max
  /\ InitCalls

(* The constants as an integrator may have edited them: no order between   *)
(* the two of a pair is enforced.                                          *)
InitCfg ==
  /\ MQ7_ADC_MIN_F \in {IntToFloat(n) : n \in 0 .. CfgAdc}
  /\ MQ7_ADC_MAX_F \in {IntToFloat(n) : n \in 0 .. CfgAdc}
  /\ GAS_UNIT_MIN \in {IntToFloat(n) : n \in 0 .. CfgUnit}
  /\ GAS_UNIT_MAX \in {IntToFloat(n) : n \in 0 .. CfgUnit}
  /\ InitCalls

(* Caller c calls mq7_map_adc_to_gas(a) for some a of S: a fresh frame. *)
Call(c, S) ==
  /\ pc[c] = "idle"
  /\ \E a \in S : adc' = [adc EXCEPT ![c] = a]
  /\ pc' = [pc EXCEPT ![c] = "convert"]
  /\ v' = [v EXCEPT ![c] = FZero]
  /\ t' = [t EXCEPT ![c] = FZero]
  /\ gas_val' = [gas_val EXCEPT ![c] = FZero]
  /\ ret' = [ret EXCEPT ![c] = FZero]
  /\ UNCHANGED <<consts, hist>>

(* float v = (float)adc; *)
Convert(c) ==
  /\ pc[c] = "convert"
  /\ v' = [v EXCEPT ![c] = Converted(adc[c])]
  /\ pc' = [pc EXCEPT ![c] = "normalise"]
  /\ UNCHANGED <<consts, adc, t, gas_val, ret, hist>>

(* t is a static: one t for all callers. *)
Normalise_SharedT(c) ==
  /\ pc[c] = "normalise"
  /\ t' = [p \in Procs |-> Normalised(v[c], MQ7_ADC_MIN_F, MQ7_ADC_MAX_F)]
  /\ pc' = [pc EXCEPT ![c] = "clamp_low"]
  /\ UNCHANGED <<consts, adc, v, gas_val, ret, hist>>

(* float t = (v - MQ7_ADC_MIN_F) / (MQ7_ADC_MAX_F - MQ7_ADC_MIN_F); *)
Normalise(c) ==
  /\ pc[c] = "normalise"
  /\ t' = [t EXCEPT ![c] = Normalised(v[c], MQ7_ADC_MIN_F, MQ7_ADC_MAX_F)]
  /\ pc' = [pc EXCEPT ![c] = "clamp_low"]
  /\ UNCHANGED <<consts, adc, v, gas_val, ret, hist>>

(* if (t < 0.0f) t = 0.0f; *)
ClampLow(c) ==
  /\ pc[c] = "clamp_low"
  /\ t' = [t EXCEPT ![c] = ClampedLow(t[c])]
  /\ pc' = [pc EXCEPT ![c] = "clamp_high"]
  /\ UNCHANGED <<consts, adc, v, gas_val, ret, hist>>

(* if (t > 1.0f) t = 1.0f; *)
ClampHigh(c) ==
  /\ pc[c] = "clamp_high"
  /\ t' = [t EXCEPT ![c] = ClampedHigh(t[c])]
  /\ pc' = [pc EXCEPT ![c] = "scale"]
  /\ UNCHANGED <<consts, adc, v, gas_val, ret, hist>>

(* The minimum is not const, and the call stores its result in it. *)
Scale_Drift(c) ==
  /\ pc[c] = "scale"
  /\ gas_val' = [gas_val EXCEPT ![c] = Scaled(t[c], GAS_UNIT_MIN, GAS_UNIT_MAX)]
  /\ GAS_UNIT_MIN' = Scaled(t[c], GAS_UNIT_MIN, GAS_UNIT_MAX)
  /\ pc' = [pc EXCEPT ![c] = "return"]
  /\ UNCHANGED <<MQ7_ADC_MIN_F, MQ7_ADC_MAX_F, GAS_UNIT_MAX, adc, v, t, ret, hist>>

(* float gas_val = GAS_UNIT_MIN + t * (GAS_UNIT_MAX - GAS_UNIT_MIN); *)
Scale(c) ==
  /\ pc[c] = "scale"
  /\ gas_val' = [gas_val EXCEPT ![c] = Scaled(t[c], GAS_UNIT_MIN, GAS_UNIT_MAX)]
  /\ pc' = [pc EXCEPT ![c] = "return"]
  /\ UNCHANGED <<consts, adc, v, t, ret, hist>>

(* return gas_val;  The frame's locals end with the call.  With log, the   *)
(* caller also notes the call and its result.                              *)
Return(c, log) ==
  /\ pc[c] = "return"
  /\ ret' = [ret EXCEPT ![c] = gas_val[c]]
  /\ pc' = [pc EXCEPT ![c] = "done"]
  /\ v' = [v EXCEPT ![c] = FZero]
  /\ t' = [t EXCEPT ![c] = FZero]
  /\ gas_val' = [gas_val EXCEPT ![c] = FZero]
  /\ hist' = IF log THEN hist \cup {<<adc[c], gas_val[c]>>} ELSE hist
  /\ UNCHANGED <<consts, adc>>

(* The caller is through with the result and ready for its next call. *)
Release(c) ==
  /\ pc[c] = "done"
  /\ pc' = [pc EXCEPT ![c] = "idle"]
  /\ adc' = [adc EXCEPT ![c] = 0]
  /\ ret' = [ret EXCEPT ![c] = FZero]
  /\ UNCHANGED <<consts, v, t, gas_val, hist>>

(* The statements of c's call, in program order. *)
Step(c) == Convert(c) \/ Normalise(c) \/ ClampLow(c) \/ ClampHigh(c) \/ Scale(c)

(* One caller, one call after another, over every input. *)
Next ==
  \/ Call(1, AdcInputs)
  \/ Step(1)
  \/ Return(1, FALSE)
  \/ Release(1)

Spec == Init /\ [][Next]_vars

(* One caller that keeps a log of its calls. *)
NextHist ==
  \/ Call(1, SampleInputs)
  \/ Step(1)
  \/ Return(1, TRUE)
  \/ Release(1)

SpecHist == Init /\ [][NextHist]_vars

(* NCallers callers, their statements interleaved in any order. *)
NextConc ==
  \E c \in Procs :
    \/ Call(c, SampleInputs)
    \/ Step(c)
    \/ Return(c, FALSE)
    \/ Release(c)

SpecConc == Init /\ [][NextConc]_vars

(* One caller under constants an integrator may have set. *)
NextCfg ==
  \/ Call(1, CfgInputs)
  \/ Step(1)
  \/ Return(1, FALSE)
  \/ Release(1)

SpecCfg == InitCfg /\ [][NextCfg]_vars

---------------------------------------------------------------------------
(* What the claims are stated with. *)

Done(c) == pc[c] = "done"

F150 == IntToFloat(UNIT_LO)
F700 == IntToFloat(UNIT_HI)

(* The map under the shipped constants, tabulated over the inputs. *)
NearLo == ADC_LO - Margin
NearHi == ADC_HI + Margin
ShippedNear == [i \in 1 .. (NearHi - NearLo + 1) |-> MapWith(Shipped, NearLo + i - 1)] \o <<>>
ShippedFar == [a \in FarInputs |-> MapWith(Shipped, a)]
ShippedGas(a) ==
  IF a >= NearLo /\ a <= NearHi THEN ShippedNear[a - NearLo + 1] ELSE ShippedFar[a]

(* The inputs of the contiguous range, and the far ones, above a. *)
NearAbove(a) ==
  (IF a >= NearHi THEN NearHi + 1 ELSE IF a < NearLo THEN NearLo ELSE a + 1) .. NearHi
FarAbove(a) == {b \in FarInputs : b > a}

(* Every float the state holds is zero or inside binary32's normal range,  *)
(* or comes from a division by zero: the arithmetic above needs no         *)
(* overflow or underflow case.                                             *)
InNormalRange(x) == x.k = "fin" => (x.m = 0 \/ (x.e >= -149 /\ x.e <= 104))
ExponentsNormal ==
  \A c \in Procs : InNormalRange(v[c]) /\ InNormalRange(t[c])
                   /\ InNormalRange(gas_val[c]) /\ InNormalRange(ret[c])

(* A result between 128 and 1024 in units of 2^-16, and the numerator of   *)
(* its distance from the exact value                                       *)
(*   UNIT_LO + (a - ADC_LO) * (UNIT_HI - UNIT_LO) / (ADC_HI - ADC_LO),     *)
(* in units of 2^-16 / (ADC_HI - ADC_LO).                                  *)
Fixed16(x) == x.m * 2^(x.e + 16)
Abs(n) == IF n < 0 THEN -n ELSE n
SpanQ == ((UNIT_HI - UNIT_LO) * 65536) \div (ADC_HI - ADC_LO)
SpanR == ((UNIT_HI - UNIT_LO) * 65536) % (ADC_HI - ADC_LO)
ErrNum(a, r) ==
  (ADC_HI - ADC_LO) * (Fixed16(r) - UNIT_LO * 65536 - (a - ADC_LO) * SpanQ)
    - (a - ADC_LO) * SpanR
(* A floating-point tolerance: 2^-13 gas units, four units in the last     *)
(* place of a result between 256 and 512; TolUnits in units of 2^-16,      *)
(* TolNum in ErrNum's.                                                     *)
TolUnits == 2^3
TolNum == (ADC_HI - ADC_LO) * TolUnits

---------------------------------------------------------------------------
(* The claims. *)

(* C1: for every int adc, however far outside 0 .. 4095, the result v of   *)
(* mq7_map_adc_to_gas(adc) satisfies 150 <= v <= 700, both inclusive.      *)
C1_ResultInRange ==
  \A c \in Procs : Done(c) => FLe(F150, ret[c]) /\ FLe(ret[c], F700)

C1_Witness ==
  /\ Done(1) /\ adc[1] = 2147483647
  /\ FLe(F150, ret[1]) /\ FLe(ret[1], F700)

(* C2: out-of-domain inputs saturate instead of failing: adc < 0 returns   *)
(* exactly 150, adc > 4095 returns exactly 700, and no input ends in an    *)
(* error value (an infinity or a NaN).                                     *)
C2_Saturates ==
  \A c \in Procs : Done(c) =>
    /\ ret[c].k = "fin"
    /\ adc[c] < ADC_LO => ret[c] = F150
    /\ adc[c] > ADC_HI => ret[c] = F700

C2_Witness == Done(1) /\ adc[1] = -100 /\ ret[1] = F150

(* C3: the map is monotone non-decreasing over all ints: a call with adc   *)
(* returns no more than the call with any larger input returns.            *)
C3_Monotone ==
  \A c \in Procs : Done(c) =>
    /\ Current = Shipped
    /\ \A a2 \in NearAbove(adc[c]) : FLe(ret[c], ShippedGas(a2))
    /\ \A a2 \in FarAbove(adc[c]) : FLe(ret[c], ShippedGas(a2))

C3_Witness == Done(1) /\ adc[1] = 2047 /\ FLt(ret[1], ShippedGas(2048))

(* C4: the endpoints of the domain map exactly to the endpoints of the     *)
(* range: adc = 0 returns 150 and adc = 4095 returns 700.                  *)
C4_Endpoints ==
  \A c \in Procs : Done(c) =>
    /\ adc[c] = ADC_LO => ret[c] = F150
    /\ adc[c] = ADC_HI => ret[c] = F700

C4_Witness == Done(1) /\ adc[1] = 4095 /\ ret[1] = F700

(* C5, as claimed: the result equals the reference formula in exact       *)
(* arithmetic, 150 + adc * 550 / 4095 for 0 <= adc <= 4095 and 150 or 700  *)
(* beyond, the clamp being applied to t before the scaling.                *)
C5_ExactFormula ==
  \A c \in Procs :
    /\ pc[c] = "scale" => FLe(FZero, t[c]) /\ FLe(t[c], IntToFloat(1))
    /\ Done(c) =>
         /\ FLe(F150, ret[c]) /\ FLe(ret[c], F700)
         /\ adc[c] < ADC_LO => ret[c] = F150
         /\ adc[c] > ADC_HI => ret[c] = F700
         /\ (adc[c] >= ADC_LO /\ adc[c] <= ADC_HI) => ErrNum(adc[c], ret[c]) = 0

(* C5, amended: the result is the reference formula evaluated in float:    *)
(* for 0 <= adc <= 4095 it is within 2^-13 of 150 + adc * 550 / 4095, and  *)
(* equal to it at adc = 0 and adc = 4095; it is 150 below 0 and 700 above  *)
(* 4095; the clamp is applied to t before the scaling.                     *)
C5_FormulaRounded ==
  \A c \in Procs :
    /\ pc[c] = "scale" => FLe(FZero, t[c]) /\ FLe(t[c], IntToFloat(1))
    /\ Done(c) =>
         /\ FLe(F150, ret[c]) /\ FLe(ret[c], F700)
         /\ adc[c] < ADC_LO => ret[c] = F150
         /\ adc[c] > ADC_HI => ret[c] = F700
         /\ (adc[c] >= ADC_LO /\ adc[c] <= ADC_HI) => Abs(ErrNum(adc[c], ret[c])) <= TolNum
         /\ adc[c] \in {ADC_LO, ADC_HI} => ErrNum(adc[c], ret[c]) = 0

C5_Witness ==
  /\ Done(1) /\ adc[1] = 2768
  /\ ErrNum(adc[1], ret[1]) # 0 /\ Abs(ErrNum(adc[1], ret[1])) <= TolNum

(* The midpoint of the range, 425, in units of 2^-16, and half the span,   *)
(* 275, in the same units.                                                 *)
MidUnits == ((UNIT_LO + UNIT_HI) \div 2) * 65536
HalfSpanUnits == ((UNIT_HI - UNIT_LO) \div 2) * 65536

(* C6, as claimed: adc = 2047 and adc = 2048 each return 425.0 within      *)
(* floating-point tolerance.                                               *)
C6_MidpointIs425 ==
  \A c \in Procs : (Done(c) /\ adc[c] \in {2047, 2048}) =>
    /\ FLe(F150, ret[c]) /\ FLe(ret[c], F700)
    /\ Abs(Fixed16(ret[c]) - MidUnits) <= TolUnits

(* C6, amended: the two samples straddle the midpoint: adc = 2047 returns  *)
(* 425 - 275/4095 (about 424.9328) and adc = 2048 returns 425 + 275/4095   *)
(* (about 425.0672), each within floating-point tolerance.                 *)
C6_MidpointStraddled ==
  \A c \in Procs : (Done(c) /\ adc[c] \in {2047, 2048}) =>
    /\ FLe(F150, ret[c]) /\ FLe(ret[c], F700)
    /\ adc[c] = 2047 => Fixed16(ret[c]) < MidUnits
    /\ adc[c] = 2048 => Fixed16(ret[c]) > MidUnits
    /\ Abs(Fixed16(ret[c]) - MidUnits) < 65536
    /\ Abs((ADC_HI - ADC_LO) * Abs(Fixed16(ret[c]) - MidUnits) - HalfSpanUnits) <= TolNum

C6_Witness == Done(1) /\ adc[1] = 2048 /\ Fixed16(ret[1]) > MidUnits

(* C10: inside the domain the map is strictly increasing, hence injective: *)
(* for 0 <= adc1 < adc2 <= 4095 the first call returns less than the       *)
(* second; so 150 is returned only for adc <= 0 and 700 only for           *)
(* adc >= 4095.                                                            *)
C10_StrictInDomain ==
  \A c \in Procs : Done(c) =>
    /\ Current = Shipped
    /\ (adc[c] >= ADC_LO /\ adc[c] <= ADC_HI) =>
         \A a2 \in (adc[c] + 1) .. ADC_HI : FLt(ret[c], ShippedGas(a2))
    /\ ret[c] = F150 => adc[c] <= ADC_LO
    /\ ret[c] = F700 => adc[c] >= ADC_HI

C10_Witness == Done(1) /\ adc[1] = 1 /\ FLt(ShippedGas(0), ret[1]) /\ ret[1] # F150

(* C7: the function is deterministic and history-independent: whatever    *)
(* calls came before or between, two calls with the same adc return the    *)
(* same result, and no call modifies the four constants.                   *)
C7_Deterministic ==
  /\ Current = Shipped
  /\ \A p \in hist : \A q \in hist : p[1] = q[1] => p[2] = q[2]
  /\ \A c \in Procs : pc[c] = "return" =>
       \A h \in hist : h[1] = adc[c] => h[2] = gas_val[c]

(* A call about to return what an earlier call with the same argument      *)
(* returned, calls with other arguments having been made as well.          *)
C7_Witness ==
  /\ pc[1] = "return" /\ adc[1] = 2047
  /\ <<2047, gas_val[1]>> \in hist
  /\ Cardinality(hist) >= 3

(* C8: the function is reentrant: with any number of callers whose         *)
(* statements interleave in any order, each caller's result is the result  *)
(* of its call run alone.                                                  *)
C8_Reentrant ==
  \A c \in Procs : Done(c) => ret[c] = MapWith(Shipped, adc[c])

(* Caller 1 done while caller 2 is in the middle of a call with another    *)
(* argument.                                                               *)
C8_Witness ==
  /\ Done(1) /\ adc[1] = 2047 /\ ret[1] = MapWith(Shipped, 2047)
  /\ pc[2] = "scale" /\ adc[2] = 10000

(* The configuration invariant, and the order properties of the map under  *)
(* the constants as they are, over the inputs.                             *)
ConfigOK == FLt(MQ7_ADC_MIN_F, MQ7_ADC_MAX_F) /\ FLt(GAS_UNIT_MIN, GAS_UNIT_MAX)
AdcReversed == FLt(MQ7_ADC_MAX_F, MQ7_ADC_MIN_F)
UnitReversed == FLt(GAS_UNIT_MAX, GAS_UNIT_MIN)
NonDecreasing ==
  \A a1 \in CfgInputs : \A a2 \in CfgInputs :
    a1 < a2 => FLe(mq7_map_adc_to_gas(a1), mq7_map_adc_to_gas(a2))
NonIncreasing ==
  \A a1 \in CfgInputs : \A a2 \in CfgInputs :
    a1 < a2 => FLe(mq7_map_adc_to_gas(a2), mq7_map_adc_to_gas(a1))
ShippedOK == FLt(Shipped.adc_min, Shipped.adc_max) /\ FLt(Shipped.unit_min, Shipped.unit_max)

(* What the constants' order guarantees whichever way the other cases go:  *)
(* under the invariant the map is monotone non-decreasing with its results *)
(* in [UNIT_MIN, UNIT_MAX]; with ADC_MIN = ADC_MAX the normalisation        *)
(* divides by zero.                                                        *)
OrderedCase(c) ==
  ConfigOK =>
    /\ NonDecreasing
    /\ FLe(GAS_UNIT_MIN, ret[c]) /\ FLe(ret[c], GAS_UNIT_MAX)
DegenerateCase(c) ==
  MQ7_ADC_MIN_F = MQ7_ADC_MAX_F =>
    /\ FSub(MQ7_ADC_MAX_F, MQ7_ADC_MIN_F) = FZero
    /\ Normalised(Converted(adc[c]), MQ7_ADC_MIN_F, MQ7_ADC_MAX_F).k # "fin"

====
